---- MODULE Spec2Model ----
(***************************************************************************)
(* Model of the sub chunk decoder of danhale-git/mine (package world):     *)
(* the voxel indexer (subChunkVoxelToIndex, subChunkIndexToVoxel), the     *)
(* bit-packed index unpacker (stateIndices), the palette reader            *)
(* (statePalette), parseBlockStorage and parseSubChunk.                    *)
(*                                                                         *)
(* TLC integers are 32 bits wide.  Go's int32 values are kept exactly;     *)
(* Go's int (64 bits) values that the code can produce beyond that range   *)
(* (only the conversion of +Inf to int) are represented by the sentinels   *)
(* HugeInt / -HugeInt, which the code only ever compares with counters     *)
(* that stay below subChunkBlockCount or the buffer length.                *)
(***************************************************************************)
EXTENDS Integers, Sequences, FiniteSets, TLC

VARIABLES
    mode,           \* which entry point this behaviour exercises
    build,          \* target architecture of the build (decides float->int of +Inf)
    call,           \* last call of a voxel indexer function, with its outcome
    test,           \* loop state of TestSubChunkVoxelToIndex / TestSubChunkIndexToVoxel
    data,           \* the immutable input buffer handed to bytes.NewReader
    pos,            \* read offset of the bytes.Reader r (bytes consumed so far)
    pc,             \* position inside parseSubChunk / stateIndices caller
    version,        \* parseSubChunk: var version int8
    storageCount,   \* parseSubChunk: var storageCount int8
    s,              \* parseSubChunk: s subChunkData (Blocks, WaterLogged)
    layerStart,     \* offsets at which parseBlockStorage was entered, in call order
    ret             \* what the entry point handed back (or how it ended)

vars == <<mode, build, call, test, data, pos, pc, version, storageCount, s, layerStart, ret>>

-----------------------------------------------------------------------------
(* Program constants *)

subChunkBlockCount == 4096
chunkSize == 16

(* Bounds of the model *)

\* coordinates handed to subChunkVoxelToIndex range over -CoordMargin .. 15+CoordMargin
CoordMargin == 2
\* indices handed to subChunkIndexToVoxel range over -IndexMargin .. 4095+IndexMargin
IndexMargin == 16

-----------------------------------------------------------------------------
(* Integer helpers standing for Go's fixed-width arithmetic *)

MaxInt32 == 2147483647
MinInt32 == (0 - 2147483647) - 1
\* stands for math.MaxInt64 (and -HugeInt for math.MinInt64), see the header
HugeInt == 2147483647

Min(a, b) == IF a < b THEN a ELSE b

\* x & m on two's complement integers of any width (Go's & on signed ints)
RECURSIVE BitAnd(_, _)
BitAnd(a, m) ==
    IF m = 0 \/ a = 0 THEN 0
    ELSE IF m = 0 - 1 THEN a
    ELSE IF a = 0 - 1 THEN m
    ELSE (a % 2) * (m % 2) + 2 * BitAnd(a \div 2, m \div 2)

\* x >> n on a signed integer: arithmetic shift, i.e. floor division by 2^n.
\* Go yields 0 or -1 once n reaches the width of the operand.
ShiftRight(a, n) ==
    IF n >= 31 THEN (IF a < 0 THEN 0 - 1 ELSE 0) ELSE a \div (2 ^ n)

\* int32(1) << n: bits shifted past bit 31 are lost
ShiftLeftOne32(n) ==
    IF n >= 32 THEN 0 ELSE IF n = 31 THEN MinInt32 ELSE 2 ^ n

\* v - 1 in int32, wrapping
Dec32(v) == IF v = MinInt32 THEN MaxInt32 ELSE v - 1

\* int8(b) for a byte b
Int8(b) == IF b >= 128 THEN b - 256 ELSE b

-----------------------------------------------------------------------------
(* Voxel indexer *)

\* How a call ends is a record with a kind and an error:
\*   kind "ok"     the function returned its value (err is nil)
\*   kind "error"  the function returned a non-nil error to its caller
\*   kind "panic"  panic / log.Panicf: the goroutine panics, nothing is returned
\*   kind "fatal"  log.Fatalf: the process exits with status 1
\* The error is named after the condition the message reports:
\*   "reading version byte", "reading storage count", "reading word %d",
\*   "reading palette size bytes"                        TruncatedData
\*   "unhandled subchunk block storage version"          UnsupportedVersion
\*   "invalid block storage version %d"                  UnsupportedStorageFormat
\*   "calling nbt2json", "unmarshaling json"             MalformedPaletteEntry
\*   "%d nbt records returned for palette size of %d"    PaletteSizeMismatch
\*   "block storage count is 0"                          EmptyStorageRecord
\*   "unhandled storage count: %d"                       UnsupportedStorageCount
\*   "second block storage palette ..."                  UnexpectedWaterLayerShape
\*   "coordinates %d %d %d are invalid"                  CoordinateOutOfRange

\* log.Panicf
Panic(e) == [kind |-> "panic", err |-> e]

\* the axes weighted in the wrong order (x fastest, y slowest)
subChunkVoxelToIndex_xFastest(x, y, z) ==
    IF x > 15 \/ y > 15 \/ z > 15
    THEN Panic("CoordinateOutOfRange")
    ELSE [kind |-> "ok", val |-> x + z * 16 + y * 16 * 16]

subChunkVoxelToIndex(x, y, z) ==
    IF x > 15 \/ y > 15 \/ z > 15
    THEN Panic("CoordinateOutOfRange")
    ELSE [kind |-> "ok", val |-> y + z * 16 + x * 16 * 16]

\* y and z taken from each other's nibble
subChunkIndexToVoxel_yzSwapped(i) ==
    [x |-> BitAnd(ShiftRight(i, 8), 15),
     y |-> BitAnd(ShiftRight(i, 4), 15),
     z |-> BitAnd(i, 15)]

subChunkIndexToVoxel(i) ==
    [x |-> BitAnd(ShiftRight(i, 8), 15),
     y |-> BitAnd(i, 15),
     z |-> BitAnd(ShiftRight(i, 4), 15)]

CoordInputs == (0 - CoordMargin) .. (chunkSize - 1 + CoordMargin)
IndexInputs == (0 - IndexMargin) .. (subChunkBlockCount - 1 + IndexMargin)

NoCall == [fn |-> "none"]
NoTest == [name |-> "none"]

\* a caller invokes subChunkVoxelToIndex(x, y, z)
CallVoxelToIndex ==
    /\ mode = "indexer"
    /\ call = NoCall
    /\ \E x \in CoordInputs, y \in CoordInputs, z \in CoordInputs :
          call' = [fn |-> "subChunkVoxelToIndex", x |-> x, y |-> y, z |-> z,
                   out |-> subChunkVoxelToIndex(x, y, z)]
    /\ UNCHANGED <<mode, build, test, data, pos, pc, version, storageCount, s, layerStart, ret>>

\* a caller invokes subChunkIndexToVoxel(i)
CallIndexToVoxel ==
    /\ mode = "indexer"
    /\ call = NoCall
    /\ \E i \in IndexInputs :
          call' = [fn |-> "subChunkIndexToVoxel", i |-> i,
                   out |-> subChunkIndexToVoxel(i)]
    /\ UNCHANGED <<mode, build, test, data, pos, pc, version, storageCount, s, layerStart, ret>>

\* the loop header of both tests: x outer, z middle, y inner, i counting up
TestStart(name) == [name |-> name, i |-> 0, x |-> 0, z |-> 0, y |-> 0, status |-> "running"]

TestAdvance(t, status) ==
    IF status = "failed" THEN [t EXCEPT !.status = "failed"]
    ELSE LET y1 == t.y + 1
             z1 == IF y1 < 16 THEN t.z ELSE t.z + 1
             x1 == IF y1 < 16 \/ z1 < 16 THEN t.x ELSE t.x + 1
         IN  [t EXCEPT !.i = t.i + 1,
                       !.y = IF y1 < 16 THEN y1 ELSE 0,
                       !.z = IF z1 < 16 THEN z1 ELSE 0,
                       !.x = x1,
                       !.status = IF x1 < 16 THEN "running" ELSE "passed"]

\* one iteration of the innermost loop body of TestSubChunkVoxelToIndex
TestSubChunkVoxelToIndex ==
    /\ test.name = "TestSubChunkVoxelToIndex"
    /\ test.status = "running"
    /\ LET converted == subChunkVoxelToIndex(test.x, test.y, test.z)
       IN  /\ call' = [fn |-> "subChunkVoxelToIndex", x |-> test.x, y |-> test.y,
                       z |-> test.z, out |-> converted]
           /\ test' = TestAdvance(test,
                        IF converted.kind = "ok" /\ converted.val = test.i
                        THEN "running" ELSE "failed")
    /\ UNCHANGED <<mode, build, data, pos, pc, version, storageCount, s, layerStart, ret>>

\* one iteration of the innermost loop body of TestSubChunkIndexToVoxel
TestSubChunkIndexToVoxel ==
    /\ test.name = "TestSubChunkIndexToVoxel"
    /\ test.status = "running"
    /\ LET c == subChunkIndexToVoxel(test.i)
       IN  /\ call' = [fn |-> "subChunkIndexToVoxel", i |-> test.i, out |-> c]
           /\ test' = TestAdvance(test,
                        IF c.x = test.x /\ c.y = test.y /\ c.z = test.z
                        THEN "running" ELSE "failed")
    /\ UNCHANGED <<mode, build, data, pos, pc, version, storageCount, s, layerStart, ret>>

-----------------------------------------------------------------------------
(* Specification of the voxel indexer and its two tests *)

NoLayer == [Indices |-> <<>>, Palette |-> <<>>]
NoRet == [kind |-> "running"]

IdleDecoder ==
    /\ build = "amd64"
    /\ data = <<>>
    /\ pos = 0
    /\ pc = "idle"
    /\ version = 0
    /\ storageCount = 0
    /\ s = [Blocks |-> NoLayer, WaterLogged |-> NoLayer]
    /\ layerStart = <<>>
    /\ ret = NoRet

InitIndexer ==
    /\ mode \in {"indexer", "test"}
    /\ call = NoCall
    /\ test \in IF mode = "indexer" THEN {NoTest}
                ELSE {TestStart("TestSubChunkVoxelToIndex"), TestStart("TestSubChunkIndexToVoxel")}
    /\ IdleDecoder

NextIndexer ==
    \/ CallVoxelToIndex
    \/ CallIndexToVoxel
    \/ TestSubChunkVoxelToIndex
    \/ TestSubChunkIndexToVoxel

SpecIndexer == InitIndexer /\ [][NextIndexer]_vars

-----------------------------------------------------------------------------
(* Claims about the voxel indexer, checked under SpecIndexer *)

InRange(c) == c \in 0 .. (chunkSize - 1)

\* C1: for x, y, z in [0,15] subChunkVoxelToIndex returns y + 16*z + 256*x, and
\* enumerating x (outer), z (middle), y (inner) yields the indices 0, 1, 2, ...
\* in that order (TestSubChunkVoxelToIndex never fails and ends after 4096 steps)
C1_VoxelToIndexFormula ==
    /\ (call.fn = "subChunkVoxelToIndex" /\ InRange(call.x) /\ InRange(call.y) /\ InRange(call.z))
          => (call.out.kind = "ok" /\ call.out.val = call.y + 16 * call.z + 256 * call.x)
    /\ test.name = "TestSubChunkVoxelToIndex"
          => /\ test.status # "failed"
             /\ test.status = "running" => test.i = test.y + 16 * test.z + 256 * test.x
             /\ test.status = "passed" => test.i = subChunkBlockCount

C1_Witness ==
    /\ test.name = "TestSubChunkVoxelToIndex"
    /\ test.status = "passed"
    /\ call.fn = "subChunkVoxelToIndex"
    /\ call.x = 15 /\ call.y = 15 /\ call.z = 15
    /\ call.out.val = subChunkBlockCount - 1

\* C2: the two conversions are mutually inverse on [0,15]^3 and [0,4095], and
\* iterating i over 0..4095 visits every coordinate triple exactly once (the i-th
\* triple visited is the i-th triple of the x/z/y enumeration, which lists each
\* triple once)
C2_MutuallyInverse ==
    /\ (call.fn = "subChunkVoxelToIndex" /\ InRange(call.x) /\ InRange(call.y) /\ InRange(call.z))
          => /\ call.out.kind = "ok"
             /\ call.out.val \in 0 .. (subChunkBlockCount - 1)
             /\ subChunkIndexToVoxel(call.out.val) = [x |-> call.x, y |-> call.y, z |-> call.z]
    /\ (call.fn = "subChunkIndexToVoxel" /\ call.i \in 0 .. (subChunkBlockCount - 1))
          => /\ InRange(call.out.x) /\ InRange(call.out.y) /\ InRange(call.out.z)
             /\ subChunkVoxelToIndex(call.out.x, call.out.y, call.out.z)
                   = [kind |-> "ok", val |-> call.i]
    /\ test.name = "TestSubChunkIndexToVoxel"
          => /\ test.status # "failed"
             /\ test.status = "passed" => test.i = subChunkBlockCount

C2_Witness ==
    /\ test.name = "TestSubChunkIndexToVoxel"
    /\ test.status = "passed"
    /\ call.fn = "subChunkIndexToVoxel"
    /\ call.i = subChunkBlockCount - 1
    /\ call.out = [x |-> 15, y |-> 15, z |-> 15]

\* C9: subChunkVoxelToIndex fails with CoordinateOutOfRange whenever a coordinate
\* lies outside [0,15] (above 15 or negative), so every index it returns lies in
\* [0,4095]
C9_OutOfRangeRejected ==
    call.fn = "subChunkVoxelToIndex"
       => /\ ~(InRange(call.x) /\ InRange(call.y) /\ InRange(call.z))
                => (call.out.kind # "ok" /\ call.out.err = "CoordinateOutOfRange")
          /\ call.out.kind = "ok" => call.out.val \in 0 .. (subChunkBlockCount - 1)

-----------------------------------------------------------------------------
(* Reading from the bytes.Reader: (data, offset) -> value and new offset *)

\* the byte is looked at but the reader is not advanced
ReadByte_peek(d, p) ==
    IF p < Len(d)
    THEN [ok |-> TRUE, val |-> d[p + 1], pos |-> p]
    ELSE [ok |-> FALSE, val |-> 0, pos |-> p]

\* readLittleEndian(r, &v) for a one byte v: io.EOF when nothing is left
ReadByte(d, p) ==
    IF p < Len(d)
    THEN [ok |-> TRUE, val |-> d[p + 1], pos |-> p + 1]
    ELSE [ok |-> FALSE, val |-> 0, pos |-> p]

\* readLittleEndian(r, &v) for v int32: four bytes, least significant first, the
\* last one carrying the sign; a short read consumes what is left and fails
ReadInt32(d, p) ==
    IF p + 4 <= Len(d)
    THEN [ok |-> TRUE,
          val |-> d[p + 1] + 256 * d[p + 2] + 65536 * d[p + 3] + 16777216 * Int8(d[p + 4]),
          pos |-> p + 4]
    ELSE [ok |-> FALSE, val |-> 0, pos |-> Len(d)]

-----------------------------------------------------------------------------
(* stateIndices *)

\* int(math.Floor(+Inf)) and int(math.Ceil(+Inf)): the Go specification leaves the
\* result to the implementation; amd64 yields math.MinInt64, arm64 math.MaxInt64
Builds == {"amd64", "arm64"}
InfToInt(bld) == IF bld = "amd64" THEN 0 - HugeInt ELSE HugeInt

\* int(math.Floor(32.0 / float64(bitsPerBlock)))
BlocksPerWord(bitsPerBlock, bld) ==
    IF bitsPerBlock = 0 THEN InfToInt(bld) ELSE 32 \div bitsPerBlock

\* int(math.Ceil(subChunkBlockCount / float64(blocksPerWord)))
WordCount(blocksPerWord, bld) ==
    IF blocksPerWord = 0 THEN InfToInt(bld)
    ELSE IF blocksPerWord > 0
         THEN (IF subChunkBlockCount % blocksPerWord = 0
               THEN subChunkBlockCount \div blocksPerWord
               ELSE subChunkBlockCount \div blocksPerWord + 1)
         ELSE 0 - (subChunkBlockCount \div (0 - blocksPerWord))

\* int((word >> ((i % blocksPerWord) * bitsPerBlock)) & ((1 << bitsPerBlock) - 1)),
\* all in int32, the type of word
ExtractIndex(word, i, blocksPerWord, bitsPerBlock) ==
    BitAnd(ShiftRight(word, (i % blocksPerWord) * bitsPerBlock),
           Dec32(ShiftLeftOne32(bitsPerBlock)))

\* The loops write indices[i] and then increment i, starting from i = 0: the values
\* they produce fill indices[0], indices[1], ... in the order produced.  The loop
\* operators below return that run of values (out) beside the loop state; the
\* ranges are halved only to keep the evaluation shallow.

\* the inner loop, iterations b = lo .. hi-1 in order, entered with counter i:
\*   for b := 0; b < blocksPerWord && i < subChunkBlockCount; b++ { indices[i] = ...; i++ }
RECURSIVE BlockLoop(_, _, _, _, _, _)
BlockLoop(lo, hi, i, word, blocksPerWord, bitsPerBlock) ==
    IF lo >= hi \/ i >= subChunkBlockCount THEN <<>>
    ELSE IF hi = lo + 1
         THEN <<ExtractIndex(word, i, blocksPerWord, bitsPerBlock)>>
         ELSE LET mid == lo + (hi - lo) \div 2
                  left == BlockLoop(lo, mid, i, word, blocksPerWord, bitsPerBlock)
              IN  left \o BlockLoop(mid, hi, i + Len(left), word, blocksPerWord, bitsPerBlock)

\* one iteration of the outer loop: read a word, then run the inner loop
WordStep(d, st, blocksPerWord, bitsPerBlock) ==
    LET rd == ReadInt32(d, st.pos)
        out == BlockLoop(0, blocksPerWord, st.i, rd.val, blocksPerWord, bitsPerBlock)
    IN  IF ~rd.ok
        THEN [i |-> st.i, pos |-> rd.pos, ok |-> FALSE, out |-> <<>>]
        ELSE [i |-> st.i + Len(out), pos |-> rd.pos, ok |-> TRUE, out |-> out]

\* the outer loop, iterations w = lo .. hi-1 in order, left at the first failed read:
\*   for w := 0; w < wordCount; w++ { ... }
RECURSIVE WordLoop(_, _, _, _, _, _)
WordLoop(lo, hi, st, d, blocksPerWord, bitsPerBlock) ==
    IF lo >= hi \/ ~st.ok THEN [st EXCEPT !.out = <<>>]
    ELSE IF hi = lo + 1
         THEN WordStep(d, st, blocksPerWord, bitsPerBlock)
         ELSE LET mid == lo + (hi - lo) \div 2
                  left == WordLoop(lo, mid, st, d, blocksPerWord, bitsPerBlock)
                  right == WordLoop(mid, hi, left, d, blocksPerWord, bitsPerBlock)
              IN  [right EXCEPT !.out = left.out \o right.out]

\* indices := make([]int, subChunkBlockCount), then the values written from 0 on
Indices(out) == [k \in 1 .. subChunkBlockCount |-> IF k <= Len(out) THEN out[k] ELSE 0]

stateIndices(d, p, bld) ==
    LET hdr == ReadByte(d, p)
        bitsPerBlock == hdr.val \div 2
        storageVersion == hdr.val % 2
        blocksPerWord == BlocksPerWord(bitsPerBlock, bld)
        wordCount == WordCount(blocksPerWord, bld)
        st == WordLoop(0, wordCount, [i |-> 0, pos |-> hdr.pos, ok |-> TRUE, out |-> <<>>],
                       d, blocksPerWord, bitsPerBlock)
    IN  IF ~hdr.ok
        THEN [kind |-> "fatal", err |-> "TruncatedData", pos |-> hdr.pos]
        ELSE IF storageVersion # 0
        THEN [kind |-> "error", err |-> "UnsupportedStorageFormat", pos |-> hdr.pos]
        ELSE IF ~st.ok
        THEN [kind |-> "error", err |-> "TruncatedData", pos |-> st.pos]
        ELSE [kind |-> "ok", err |-> "nil", pos |-> st.pos, indices |-> Indices(st.out)]

-----------------------------------------------------------------------------
(* statePalette *)

\* The NBT encoding of one palette entry is read by the nbt2json library.  The model
\* keeps its contract only: an entry occupies one byte of the stream, the reader
\* consumes exactly the entries it is asked for, and an unknown tag code or a
\* stream that ends early is an error.  The code of an entry names its block.
NbtAir == 1
NbtWater == 2
NbtStone == 3
NbtCodes == {NbtAir, NbtWater, NbtStone}

\* NBTTag.BlockID() of a decoded entry
BlockID(tag) ==
    IF tag = NbtAir THEN "minecraft:air"
    ELSE IF tag = NbtWater THEN "minecraft:water"
    ELSE "minecraft:stone"

waterID == "minecraft:water"

\* nbt2json.ReadNbt2Json(r, "", count) followed by json.Unmarshal: count entries
\* from the cursor on, none when count <= 0
ReadNbt2Json(d, p, count) ==
    LET n == IF count > 0 THEN count ELSE 0
    IN  IF n > Len(d) - p
        THEN [ok |-> FALSE, tags |-> <<>>, pos |-> Len(d)]
        ELSE IF \E k \in 1 .. n : d[p + k] \notin NbtCodes
        THEN [ok |-> FALSE, tags |-> <<>>, pos |-> p]
        ELSE [ok |-> TRUE, tags |-> [k \in 1 .. n |-> d[p + k]], pos |-> p + n]

statePalette(d, p) ==
    LET size == ReadInt32(d, p)
        nbt == ReadNbt2Json(d, size.pos, size.val)
    IN  IF ~size.ok
        THEN [kind |-> "error", err |-> "TruncatedData", pos |-> size.pos]
        ELSE IF ~nbt.ok
        THEN [kind |-> "error", err |-> "MalformedPaletteEntry", pos |-> nbt.pos]
        ELSE IF Len(nbt.tags) # size.val
        THEN [kind |-> "error", err |-> "PaletteSizeMismatch", pos |-> nbt.pos]
        ELSE [kind |-> "ok", err |-> "nil", pos |-> nbt.pos, palette |-> nbt.tags]

-----------------------------------------------------------------------------
(* parseBlockStorage *)

parseBlockStorage(d, p, bld) ==
    LET ind == stateIndices(d, p, bld)
        pal == statePalette(d, ind.pos)
    IN  IF ind.kind # "ok"
        THEN [kind |-> ind.kind, err |-> ind.err, pos |-> ind.pos]
        ELSE IF pal.kind # "ok"
        THEN [kind |-> pal.kind, err |-> pal.err, pos |-> pal.pos]
        ELSE [kind |-> "ok", err |-> "nil", pos |-> pal.pos,
              layer |-> [Indices |-> ind.indices, Palette |-> pal.palette]]

-----------------------------------------------------------------------------
(* parseSubChunk, one action per stage of the function *)

Nil == [nil |-> TRUE]

\* return &s, nil
Returned(rec) == [kind |-> "ok", err |-> "nil", rec |-> rec]
\* return nil, err / a panic / a process exit: the caller gets no record
Failed(kind, e) == [kind |-> kind, err |-> e, rec |-> Nil]

\* an unknown version taken for the legacy single-record format
VersionCase_defaultAsLegacy(v) ==
    IF v = 8 THEN "case 8" ELSE "case 1"

\* lines 75-84: switch version { case 1: ... case 8: ... default: ... }
VersionCase(v) ==
    IF v = 1 THEN "case 1" ELSE IF v = 8 THEN "case 8" ELSE "default"

\* lines 65-77, 82-84: read the version byte and branch on it
ReadVersion ==
    /\ pc = "ReadVersion"
    /\ LET rd == ReadByte(data, pos)
           v == Int8(rd.val)
       IN  /\ pos' = rd.pos
           /\ IF ~rd.ok
              THEN /\ ret' = Failed("error", "TruncatedData")
                   /\ pc' = "done"
                   /\ UNCHANGED <<version, storageCount>>
              ELSE /\ version' = v
                   /\ IF VersionCase(v) = "case 1"
                      THEN /\ storageCount' = 1
                           /\ pc' = "DecodePrimaryLayer"
                           /\ ret' = ret
                      ELSE IF VersionCase(v) = "case 8"
                      THEN /\ pc' = "ReadStorageCount"
                           /\ UNCHANGED <<storageCount, ret>>
                      ELSE /\ ret' = Failed("error", "UnsupportedVersion")
                           /\ pc' = "done"
                           /\ UNCHANGED storageCount
    /\ UNCHANGED <<mode, build, call, test, data, s, layerStart>>

\* lines 78-81: version 8, read the storage count
ReadStorageCount ==
    /\ pc = "ReadStorageCount"
    /\ LET rd == ReadByte(data, pos)
       IN  /\ pos' = rd.pos
           /\ IF ~rd.ok
              THEN /\ ret' = Failed("error", "TruncatedData")
                   /\ pc' = "done"
                   /\ UNCHANGED storageCount
              ELSE /\ storageCount' = Int8(rd.val)
                   /\ pc' = "DecodePrimaryLayer"
                   /\ ret' = ret
    /\ UNCHANGED <<mode, build, call, test, data, version, s, layerStart>>

\* lines 88-91: the first storage record becomes s.Blocks
DecodePrimaryLayer ==
    /\ pc = "DecodePrimaryLayer"
    /\ \E r \in {parseBlockStorage(data, pos, build)} :
           /\ pos' = r.pos
           /\ layerStart' = Append(layerStart, pos)
           /\ IF r.kind # "ok"
              THEN /\ ret' = Failed(r.kind, r.err)
                   /\ pc' = "done"
                   /\ s' = s
              ELSE /\ s' = [s EXCEPT !.Blocks = r.layer]
                   /\ pc' = "SwitchStorageCount"
                   /\ ret' = ret
    /\ UNCHANGED <<mode, build, call, test, data, version, storageCount>>

\* a second storage record is decoded whatever the (non-zero) storage count
SwitchStorageCount_alwaysSecond ==
    /\ pc = "SwitchStorageCount"
    /\ IF storageCount = 0
       THEN ret' = Failed("panic", "EmptyStorageRecord") /\ pc' = "done"
       ELSE ret' = ret /\ pc' = "DecodeWaterLayer"
    /\ UNCHANGED <<mode, build, call, test, data, pos, version, storageCount, s, layerStart>>

\* lines 96-101, 120-124: the switch on storageCount once the first record is parsed
SwitchStorageCount ==
    /\ pc = "SwitchStorageCount"
    /\ IF storageCount = 0
       THEN ret' = Failed("panic", "EmptyStorageRecord") /\ pc' = "done"
       ELSE IF storageCount = 1
       THEN ret' = Returned(s) /\ pc' = "done"
       ELSE IF storageCount = 2
       THEN ret' = ret /\ pc' = "DecodeWaterLayer"
       ELSE ret' = Failed("panic", "UnsupportedStorageCount") /\ pc' = "done"
    /\ UNCHANGED <<mode, build, call, test, data, pos, version, storageCount, s, layerStart>>

\* only the length of the palette is checked
WaterLayerShapeOk_lengthOnly(palette) ==
    ~(Len(palette) > 2)

\* lines 109-118: the checks on the palette of the second storage record
WaterLayerShapeOk(palette) ==
    /\ ~(Len(palette) > 2)
    /\ ~(Len(palette) > 1 /\ BlockID(palette[2]) # waterID)

\* lines 102-118, 124: the second storage record becomes s.WaterLogged
DecodeWaterLayer ==
    /\ pc = "DecodeWaterLayer"
    /\ \E r \in {parseBlockStorage(data, pos, build)} :
           /\ pos' = r.pos
           /\ layerStart' = Append(layerStart, pos)
           /\ pc' = "done"
           /\ IF r.kind # "ok"
              THEN /\ ret' = Failed(r.kind, r.err)
                   /\ s' = s
              ELSE /\ s' = [s EXCEPT !.WaterLogged = r.layer]
                   /\ ret' = IF WaterLayerShapeOk(r.layer.Palette)
                             THEN Returned(s')
                             ELSE Failed("panic", "UnexpectedWaterLayerShape")
    /\ UNCHANGED <<mode, build, call, test, data, version, storageCount>>

-----------------------------------------------------------------------------
(* TestSubChunkBlocks: stateIndices called on a reader that skipped the header *)

\* _, _ = r.Read(make([]byte, 2))
TestSkipHeader ==
    /\ pc = "TestSkipHeader"
    /\ pos' = Min(pos + 2, Len(data))
    /\ pc' = "stateIndices"
    /\ UNCHANGED <<mode, build, call, test, data, version, storageCount, s, layerStart, ret>>

\* indices, err := stateIndices(r)
CallStateIndices ==
    /\ pc = "stateIndices"
    /\ \E r \in {stateIndices(data, pos, build)} :
           /\ pos' = r.pos
           /\ layerStart' = Append(layerStart, pos)
           /\ ret' = r
           /\ pc' = "done"
    /\ UNCHANGED <<mode, build, call, test, data, version, storageCount, s>>

-----------------------------------------------------------------------------
(* Input buffers *)

\* largest bits-per-block value put in a header byte of the unpacker's inputs
MaxBits == 34
\* longest palette put on the wire
MaxPaletteLen == 3
\* most bytes appended after the last storage record
MaxTrailing == 1

\* n as four bytes, least significant first (two's complement)
LE32(n) == <<n % 256, (n \div 256) % 256, (n \div 65536) % 256, (n \div 16777216) % 256>>

\* the byte at offset o of a run of packed words
PatternByte(pat, o) ==
    IF pat = "zero" THEN 0
    ELSE IF pat = "ones" THEN 255
    ELSE (o * 151 + 77 + (o \div 4) * 29) % 256

PackedWords(pat, n) == [o \in 1 .. 4 * n |-> PatternByte(pat, o - 1)]

\* words a storage record of width b carries: ceil(4096 / floor(32 / b)); the
\* format defines none for other widths, the inputs then carry two
WireWords(b) ==
    IF b \in 1 .. 32
    THEN (subChunkBlockCount + (32 \div b) - 1) \div (32 \div b)
    ELSE 2

StorageRecord(b, pat, size, tags) ==
    <<2 * b>> \o PackedWords(pat, WireWords(b)) \o LE32(size) \o tags

Patterns == {"zero", "ones", "mix"}

\* palettes of n entries: one block everywhere but at index 1
PalettesOfLen(n) ==
    {[k \in 1 .. n |-> IF k = 2 THEN c ELSE a] : a \in NbtCodes, c \in NbtCodes}

PrimaryRecords ==
    {StorageRecord(b, pat, n, [k \in 1 .. n |-> NbtAir]) :
        b \in 1 .. 2, pat \in Patterns, n \in 1 .. MaxPaletteLen}

WaterRecords ==
    UNION {{StorageRecord(1, "mix", n, tags) : tags \in PalettesOfLen(n)} : n \in 0 .. MaxPaletteLen}

GoodPrimary == StorageRecord(1, "mix", 2, <<NbtAir, NbtStone>>)
GoodWater == StorageRecord(1, "mix", 2, <<NbtAir, NbtWater>>)

Trailing == {[k \in 1 .. n |-> 7] : n \in 0 .. MaxTrailing}

\* records whose width field is 0 or 33, with and without a word before the
\* palette: what they decode to depends on the build
WidthRecords ==
    {<<2 * b>> \o rest : b \in {0, 33},
                         rest \in {<<>>, LE32(1) \o <<NbtAir>>,
                                   LE32(0 - 1) \o LE32(1) \o <<NbtAir>>}}

\* records that stateIndices or statePalette cannot read to the end
BrokenRecords ==
    {<<>>, <<3>>, <<2, 1, 2, 3>>,
     SubSeq(GoodPrimary, 1, Len(GoodPrimary) - 3),
     SubSeq(GoodPrimary, 1, Len(GoodPrimary) - 1),
     StorageRecord(1, "zero", 2, <<NbtAir>>),
     StorageRecord(1, "zero", 0 - 1, <<>>),
     StorageRecord(1, "zero", 1, <<9>>)}

Bodies ==
    {p \o GoodWater : p \in PrimaryRecords}
    \cup {GoodPrimary \o w : w \in WaterRecords}
    \cup {GoodPrimary \o tr : tr \in Trailing}
    \cup {GoodPrimary \o GoodWater \o tr : tr \in Trailing}
    \cup BrokenRecords
    \cup {GoodPrimary \o br : br \in BrokenRecords}

WidthBodies ==
    WidthRecords \cup {GoodPrimary \o wr : wr \in WidthRecords}

\* version 1 has no count byte; version 8 is followed by the storage count
DecodeHeaders == {<<1>>} \cup {<<8, c>> : c \in {0, 1, 2, 3, 254}}
OtherVersions == {0, 3, 9, 129, 255}

ParseInputs(bld) ==
    IF bld = "amd64"
    THEN {h \o body : h \in DecodeHeaders, body \in Bodies \cup WidthBodies}
         \cup {<<v>> \o body : v \in OtherVersions,
                               body \in {<<>>, <<1>>, <<1>> \o GoodPrimary, <<2>> \o GoodPrimary \o GoodWater}}
         \cup {<<>>, <<8>>}
    ELSE {h \o body : h \in DecodeHeaders, body \in WidthBodies}

UnpackInputs ==
    {<<8, 1>> \o StorageRecord(b, pat, 1, <<NbtAir>>) : b \in 0 .. MaxBits, pat \in {"ones", "mix"}}
    \cup {<<8, 1, 2 * b + 1>> : b \in 1 .. 2}
    \cup {<<8, 1>> \o SubSeq(StorageRecord(b, "mix", 1, <<NbtAir>>), 1, 4 * WireWords(b) - 1) : b \in {5, 16}}
    \cup {<<8>>, <<8, 1>>}

-----------------------------------------------------------------------------
(* Specifications of the decoder *)

InitDecoder(m, start) ==
    /\ mode = m
    /\ build \in Builds
    /\ call = NoCall
    /\ test = NoTest
    /\ data \in (IF m = "parseSubChunk" THEN ParseInputs(build) ELSE UnpackInputs)
    /\ pos = 0
    /\ pc = start
    /\ version = 0
    /\ storageCount = 0
    /\ s = [Blocks |-> NoLayer, WaterLogged |-> NoLayer]
    /\ layerStart = <<>>
    /\ ret = NoRet

InitParse == InitDecoder("parseSubChunk", "ReadVersion")

NextParse ==
    \/ ReadVersion
    \/ ReadStorageCount
    \/ DecodePrimaryLayer
    \/ SwitchStorageCount
    \/ DecodeWaterLayer

SpecParse == InitParse /\ [][NextParse]_vars

InitUnpack == InitDecoder("stateIndices", "TestSkipHeader")

NextUnpack ==
    \/ TestSkipHeader
    \/ CallStateIndices

SpecUnpack == InitUnpack /\ [][NextUnpack]_vars

-----------------------------------------------------------------------------
(* Claims about stateIndices, checked under SpecUnpack *)

\* the header byte of the storage record the test hands to stateIndices
UnpackHeader == data[3]
UnpackBits == UnpackHeader \div 2

\* the w-th packed word after the header byte, as the signed value of its four
\* little-endian bytes
WireWord(w) ==
    LET o == 3 + 4 * w
    IN  data[o + 1] + 256 * data[o + 2] + 65536 * data[o + 3]
           + 16777216 * (IF data[o + 4] >= 128 THEN data[o + 4] - 256 ELSE data[o + 4])

\* v is the unsigned value of bits [lo, lo+n) of the 32-bit word whose signed
\* value is word (lo + n <= 32)
IsUnsignedField(v, word, lo, n) ==
    IF n <= 30 THEN v = ShiftRight(word, lo) % (2 ^ n)
    ELSE IF n = 31 THEN v = (IF word >= 0 THEN word ELSE (word - MinInt32))
    ELSE word >= 0 /\ v = word

\* C3: for every width b in [1,32] (flag bit 0) and ceil(4096/floor(32/b)) words,
\* stateIndices returns exactly 4096 indices, index i being the unsigned value of
\* bits [k*b, k*b+b) of word floor(i / floor(32/b)), k = i mod floor(32/b); every
\* index lies in [0, 2^b) and the unused high bits of a word contribute nothing
C3_UnpackedIndices ==
    (/\ pc = "done"
     /\ Len(data) >= 3
     /\ UnpackHeader % 2 = 0
     /\ UnpackBits \in 1 .. 32
     /\ Len(data) >= 3 + 4 * WireWords(UnpackBits))
       => /\ ret.kind = "ok"
          /\ Len(ret.indices) = subChunkBlockCount
          /\ \A i \in 0 .. (subChunkBlockCount - 1) :
                LET perWord == 32 \div UnpackBits
                IN  /\ ret.indices[i + 1] >= 0
                    /\ UnpackBits <= 30 => ret.indices[i + 1] < 2 ^ UnpackBits
                    /\ IsUnsignedField(ret.indices[i + 1], WireWord(i \div perWord),
                                       (i % perWord) * UnpackBits, UnpackBits)

-----------------------------------------------------------------------------
(* Claims about parseSubChunk, checked under SpecParse *)

LayerDecoded(l) == Len(l.Indices) = subChunkBlockCount

IndicesWithinPalette(l) ==
    \A k \in 1 .. Len(l.Indices) : l.Indices[k] < Len(l.Palette)

\* C4: a storage record with an index >= the length of its palette is rejected
\* (IndexOutOfPaletteRange), so every layer handed on by parseBlockStorage, and
\* every layer of a returned record, has all 4096 indices below the palette length
C4_IndicesWithinPalette ==
    /\ LayerDecoded(s.Blocks) => IndicesWithinPalette(s.Blocks)
    /\ LayerDecoded(s.WaterLogged) => IndicesWithinPalette(s.WaterLogged)
    /\ ret.kind = "ok"
          => /\ IndicesWithinPalette(ret.rec.Blocks)
             /\ IndicesWithinPalette(ret.rec.WaterLogged)

\* C5: parseSubChunk always ends by returning a record or an error value to its
\* caller; no input makes it panic or terminate the process
C5_AlwaysReturns ==
    pc = "done" => ret.kind \in {"ok", "error"}

WaterShape(palette) ==
    /\ Len(palette) <= 2
    /\ Len(palette) = 2 => BlockID(palette[2]) = waterID

\* C6: a record with two storage records is returned only if the WaterLogged
\* palette has at most 2 entries and, when it has 2, the entry at index 1 is water
\* (index 0 is unconstrained); a second layer of any other shape is never returned,
\* the call ends with UnexpectedWaterLayerShape
C6_WaterLayerShape ==
    /\ (ret.kind = "ok" /\ storageCount = 2)
          => /\ LayerDecoded(ret.rec.WaterLogged)
             /\ WaterShape(ret.rec.WaterLogged.Palette)
    /\ (pc = "done" /\ LayerDecoded(s.WaterLogged) /\ ~WaterShape(s.WaterLogged.Palette))
          => /\ ret.kind # "ok"
             /\ ret.rec = Nil
             /\ ret.err = "UnexpectedWaterLayerShape"

C6_Witness ==
    /\ ret.kind = "ok"
    /\ storageCount = 2
    /\ ret.rec.WaterLogged.Palette = <<NbtStone, NbtWater>>

\* C7: if the first byte, read as a signed byte, is neither 1 nor 8, parseSubChunk
\* fails with UnsupportedVersion, returns nil, and reads nothing beyond that byte
C7_UnsupportedVersion ==
    (Len(data) >= 1 /\ Int8(data[1]) \notin {1, 8})
       => /\ pos <= 1
          /\ layerStart = <<>>
          /\ pc \in {"ReadVersion", "done"}
          /\ pc = "done"
                => /\ ret = [kind |-> "error", err |-> "UnsupportedVersion", rec |-> Nil]
                   /\ pos = 1
                   /\ ~LayerDecoded(s.Blocks)

C7_Witness ==
    /\ pc = "done"
    /\ Len(data) > 1
    /\ data[1] = 129
    /\ ret.err = "UnsupportedVersion"
    /\ pos = 1

\* C8: for version 8, a storage count of 0 ends the decode with EmptyStorageRecord
\* and a count other than 0, 1, 2 with UnsupportedStorageCount, and this is settled
\* when the count byte is read: no layer is decoded first and the bytes after the
\* count do not matter
C8_StorageCountSettledAtRead ==
    (pc = "done" /\ Len(data) >= 2 /\ data[1] = 8 /\ Int8(data[2]) \notin {1, 2})
       => /\ ret.kind # "ok"
          /\ ret.err = (IF Int8(data[2]) = 0 THEN "EmptyStorageRecord"
                        ELSE "UnsupportedStorageCount")
          /\ layerStart = <<>>
          /\ pos = 2

\* C10: reading the header from offset 0 advances the cursor by exactly 2 bytes for
\* version 8, the storage count being the second byte (as a signed byte), and by
\* exactly 1 byte for version 1, the storage count being 1; the first storage record
\* is decoded from offset 2 (version 8) or offset 1 (version 1)
C10_HeaderLength ==
    /\ pc = "DecodePrimaryLayer"
          => /\ version \in {1, 8}
             /\ version = 8 => (pos = 2 /\ storageCount = Int8(data[2]))
             /\ version = 1 => (pos = 1 /\ storageCount = 1)
             /\ version = Int8(data[1])
    /\ layerStart # <<>>
          => layerStart[1] = (IF version = 8 THEN 2 ELSE 1)

C10_Witness ==
    /\ pc = "SwitchStorageCount"
    /\ version = 8
    /\ storageCount = 2
    /\ layerStart = <<2>>
    /\ LayerDecoded(s.Blocks)

\* offset just past a storage record of width b in 1..32 that starts at offset
\* start: header byte, packed words, palette size, one byte per palette entry
WireRecordEnd(start, layer) ==
    LET b == data[start + 1] \div 2
    IN  start + 1 + 4 * WireWords(b) + 4 + Len(layer.Palette)

WireWidthIn(start) ==
    (data[start + 1] \div 2) \in 1 .. 32

\* C11: a successful parseSubChunk decodes exactly storageCount layers in wire
\* order, primary first: Blocks is populated in every returned record, WaterLogged
\* is populated iff the storage count is 2 (never for version 1), the second layer
\* is decoded from the cursor position left by the first, and the bytes after the
\* last decoded layer are neither read nor make the call fail
C11_LayersInWireOrder ==
    /\ ret.kind = "ok"
          => /\ pc = "done"
             /\ storageCount \in {1, 2}
             /\ Len(layerStart) = storageCount
             /\ ret.rec = s
             /\ LayerDecoded(ret.rec.Blocks)
             /\ LayerDecoded(ret.rec.WaterLogged) <=> storageCount = 2
             /\ version = 1 => ret.rec.WaterLogged = NoLayer
             /\ storageCount = 1 => ret.rec.WaterLogged = NoLayer
             /\ pos <= Len(data)
             /\ LET last == IF storageCount = 2 THEN ret.rec.WaterLogged ELSE ret.rec.Blocks
                IN  /\ pos = parseBlockStorage(data, layerStart[storageCount], build).pos
                    /\ WireWidthIn(layerStart[storageCount])
                          => pos = WireRecordEnd(layerStart[storageCount], last)
    /\ Len(layerStart) = 2
          => /\ layerStart[1] < layerStart[2]
             /\ LayerDecoded(s.Blocks)
             /\ layerStart[2] = parseBlockStorage(data, layerStart[1], build).pos
             /\ WireWidthIn(layerStart[1])
                   => layerStart[2] = WireRecordEnd(layerStart[1], s.Blocks)
    /\ (pc = "done" /\ storageCount \in {1, 2} /\ Len(layerStart) = storageCount
           /\ parseBlockStorage(data, layerStart[storageCount], build).kind = "ok"
           /\ (storageCount = 2 => WaterShape(s.WaterLogged.Palette)))
          => ret.kind = "ok"

\* both layers are returned and a byte is left after the second one
C11_Witness ==
    /\ ret.kind = "ok"
    /\ storageCount = 2
    /\ layerStart = <<2, 2 + Len(GoodPrimary)>>
    /\ LayerDecoded(ret.rec.Blocks)
    /\ LayerDecoded(ret.rec.WaterLogged)
    /\ pos = 2 + Len(GoodPrimary) + Len(GoodWater)
    /\ pos < Len(data)

\* C12: stateIndices fails with InvalidBitWidth, and returns no index array,
\* whenever the width taken from the header byte (byte >> 1, flag bit 0) gives
\* floor(32 / width) = 0, i.e. for every width in [33,127]; a width outside [1,32]
\* (0 included) never yields a successfully returned array of 4096 indices
C12_InvalidBitWidth ==
    (pc = "done" /\ Len(data) >= 3 /\ UnpackHeader % 2 = 0 /\ UnpackBits \notin 1 .. 32)
       => /\ ret.kind # "ok"
          /\ UnpackBits >= 33 => ret.err = "InvalidBitWidth"

====
